---- MODULE Spec2Model ----
(***************************************************************************)
(* Model of the client-side WebSocket engine of src/src/websocket.c, with  *)
(* the socket layer of src/src/socket.c and the receive buffer of          *)
(* src/src/vrtql.c.                                                        *)
(*                                                                         *)
(* Bytes are integers 0..255, buffers are sequences of bytes.  A frame is  *)
(* a record [fin, opcode, mask, data].  The frame queue is a sequence      *)
(* whose element 1 is the head (sc_queue_add_first prepends,               *)
(* sc_queue_del_last removes the last element).                            *)
(*                                                                         *)
(* The socket is modelled at its interface: a read appends 1..1024 bytes   *)
(* of the inbound stream to the receive buffer, times out, or fails; a     *)
(* write accepts all or a prefix of the offered bytes, times out, or       *)
(* fails.  Allocation failure and RAND_bytes failure are not modelled.     *)
(***************************************************************************)
EXTENDS Integers, Sequences, FiniteSets, TLC

\* ------------------------------------------------------------------------
\* Protocol constants
\* ------------------------------------------------------------------------

CONTINUATION_FRAME == 0
TEXT_FRAME == 1
BINARY_FRAME == 2
CLOSE_FRAME == 8
PING_FRAME == 9
PONG_FRAME == 10

WS_CLOSE_NORMAL == 1000

\* size of the stack buffer vws_socket_read receives into
ReadChunk == 1024

\* ------------------------------------------------------------------------
\* Byte arithmetic
\* ------------------------------------------------------------------------

RECURSIVE BitXor(_, _)
\* the C operator ^ on unsigned char
BitXor(a, b) ==
    IF a = 0 THEN b
    ELSE IF b = 0 THEN a
    ELSE (((a % 2) + (b % 2)) % 2) + 2 * BitXor(a \div 2, b \div 2)

RECURSIVE BitOr(_, _)
\* the C operator | on unsigned char
BitOr(a, b) ==
    IF a = 0 THEN b
    ELSE IF b = 0 THEN a
    ELSE (IF a % 2 = 1 \/ b % 2 = 1 THEN 1 ELSE 0) + 2 * BitOr(a \div 2, b \div 2)

\* the code stored without htons on a little-endian host
HostOrder(code) == << code % 256, (code \div 256) % 256 >>

\* htons(code) stored in an int16_t and viewed as two bytes
Htons(code) == << (code \div 256) % 256, code % 256 >>

\* ------------------------------------------------------------------------
\* Frames
\* ------------------------------------------------------------------------

\* vws_frame_new: a final, masked frame owning a copy of the data
vws_frame_new(data, oc) ==
    [fin |-> 1, opcode |-> oc, mask |-> 1, data |-> data]

\* the length bytes with the first limit off by one
LengthBytesOffByOne(n) ==
    IF n <= 126 THEN << n >>
    ELSE IF n <= 65535 THEN << 126, (n \div 256) % 256, n % 256 >>
    ELSE << 127, 0, 0, 0, 0,
            (n \div 16777216) % 256, (n \div 65536) % 256,
            (n \div 256) % 256, n % 256 >>

\* the length bytes vws_serialize puts after header[0]
LengthBytes(n) ==
    IF n <= 125 THEN << n >>
    ELSE IF n <= 65535 THEN << 126, (n \div 256) % 256, n % 256 >>
    ELSE << 127, 0, 0, 0, 0,
            (n \div 16777216) % 256, (n \div 65536) % 256,
            (n \div 256) % 256, n % 256 >>

\* the header with the FIN bit not shifted into place
SerializeHeaderNoShift(f) ==
    LET lb == LengthBytes(Len(f.data))
        b1 == IF f.mask # 0 THEN BitOr(lb[1], 128) ELSE lb[1]
    IN  << BitOr(f.fin, f.opcode) >> \o << b1 >> \o Tail(lb)

\* Section 1 and 2 of vws_serialize: the header, mask bit included
SerializeHeader(f) ==
    LET lb == LengthBytes(Len(f.data))
        b1 == IF f.mask # 0 THEN BitOr(lb[1], 128) ELSE lb[1]
    IN  << BitOr((f.fin * 128) % 256, f.opcode) >> \o << b1 >> \o Tail(lb)

\* a masking that starts at the second byte of the key
MaskPayloadShifted(data, key) ==
    [i \in 1..Len(data) |-> BitXor(data[i], key[(i % 4) + 1])]

\* Section 3 of vws_serialize: the payload, XOR-masked with the key
MaskPayload(data, key) ==
    [i \in 1..Len(data) |-> BitXor(data[i], key[((i - 1) % 4) + 1])]

\* vws_serialize: key is the value RAND_bytes produced
vws_serialize(f, key) ==
    IF f.mask # 0
    THEN SerializeHeader(f) \o key \o MaskPayload(f.data, key)
    ELSE SerializeHeader(f) \o f.data

\* ------------------------------------------------------------------------
\* vws_deserialize.  size_t is 64 bits wide; a 64-bit value is kept as
\* [hi, lo]: hi the top 40 bits as 5 bytes, lo the low 24 bits.
\* ------------------------------------------------------------------------

LoWidth == 16777216

ZeroHi == << 0, 0, 0, 0, 0 >>

RECURSIVE IncBytes(_)
\* big-endian increment of a byte string, wrapping to zero
IncBytes(bs) ==
    IF bs = << >> THEN << >>
    ELSE IF bs[Len(bs)] < 255
         THEN SubSeq(bs, 1, Len(bs) - 1) \o << bs[Len(bs)] + 1 >>
         ELSE IncBytes(SubSeq(bs, 1, Len(bs) - 1)) \o << 0 >>

\* w + k modulo 2^64, for 0 <= k < 2^24
AddWord(w, k) ==
    LET s == w.lo + k
    IN  [hi |-> IF s >= LoWidth THEN IncBytes(w.hi) ELSE w.hi,
         lo |-> s % LoWidth]

\* the comparison size <= w
LessOrEqualWord(size, w) == w.hi # ZeroHi \/ size <= w.lo

\* the comparison size < w of a small size with a 64-bit value
LessThanWord(size, w) == w.hi # ZeroHi \/ size < w.lo

\* number of extended length bytes announced by data[1]
SizeBytes(data) ==
    LET l == data[2] % 128
    IN  IF l = 126 THEN 2 ELSE IF l = 127 THEN 8 ELSE 0

\* f->size as read from the header (needs 2 + SizeBytes(data) bytes)
FrameSize(data) ==
    LET sb == SizeBytes(data)
    IN  IF sb = 0 THEN [hi |-> ZeroHi, lo |-> data[2] % 128]
        ELSE IF sb = 2 THEN [hi |-> ZeroHi, lo |-> data[3] * 256 + data[4]]
        ELSE [hi |-> SubSeq(data, 3, 7),
              lo |-> data[8] * 65536 + data[9] * 256 + data[10]]

\* required_bytes once the mask bit and f->size are known
RequiredBytes(data) ==
    LET sb   == SizeBytes(data)
        mask == (data[2] \div 128) % 2
    IN  AddWord(FrameSize(data), 2 + sb + (IF mask = 1 THEN 4 ELSE 0))

Incomplete == [rc |-> "FRAME_INCOMPLETE", consumed |-> 0]

\* vws_deserialize(data, size, f, &consumed) with *consumed = 0 on entry.
\* rc "UB" stands for the case in which required_bytes wrapped around and
\* the code goes on to copy f->size bytes out of a shorter buffer.
vws_deserialize(data) ==
    IF Len(data) < 2 THEN Incomplete
    ELSE IF Len(data) < 2 + SizeBytes(data) THEN Incomplete
    ELSE IF LessThanWord(Len(data), RequiredBytes(data)) THEN Incomplete
    ELSE LET sb     == SizeBytes(data)
             mask   == (data[2] \div 128) % 2
             fsize  == FrameSize(data)
             offset == 2 + sb + (IF mask = 1 THEN 4 ELSE 0)
             key    == SubSeq(data, 2 + sb + 1, 2 + sb + 4)
             raw    == SubSeq(data, offset + 1, offset + fsize.lo)
         IN  IF fsize.hi # ZeroHi THEN [rc |-> "UB", consumed |-> 0]
             ELSE [rc       |-> "FRAME_COMPLETE",
                   consumed |-> RequiredBytes(data).lo,
                   frame    |-> [fin    |-> (data[1] \div 128) % 2,
                                 opcode |-> data[1] % 16,
                                 mask   |-> mask,
                                 data   |-> IF mask = 1
                                            THEN MaskPayload(raw, key)
                                            ELSE raw]]

\* ------------------------------------------------------------------------
\* Bounds and input sets
\* ------------------------------------------------------------------------

\* longest payload of the enumerated small frames
MaxPayloadLen == 2

\* payload bytes of the enumerated frames
PayloadBytes == {97, 200}

\* masking keys RAND_bytes may produce
Keys == { << 0, 0, 0, 0 >>, << 1, 2, 4, 255 >> }

\* payload lengths around the changes of length encoding
BoundaryLens == {125, 126, 127, 65535, 65536}

SmallPayloads ==
    UNION { [1..n -> PayloadBytes] : n \in 0..MaxPayloadLen }

BoundaryPayloads == { [i \in 1..n |-> 97] : n \in BoundaryLens }

\* the key of the frame the server masks
ServerKey == << 1, 2, 4, 255 >>

\* the masking keys of the replies of the client
ReplyKeys == { << 255, 4, 2, 1 >> }

\* frames handed to the codec: every fin, opcode and mask with the small
\* payloads, data frames with the boundary payloads
CodecFrames ==
    [fin : {0, 1}, opcode : 0..15, mask : {0, 1}, data : SmallPayloads]
    \cup
    [fin : {0, 1}, opcode : {TEXT_FRAME}, mask : {0, 1},
     data : BoundaryPayloads]

\* ------------------------------------------------------------------------
\* State
\* ------------------------------------------------------------------------

VARIABLES
    codec,      \* a frame taken through vws_serialize and vws_deserialize
    sockfd,     \* c->base.sockfd: "open" (> 0) or "closed"
    flags,      \* c->flags, a set of flag names; CNX_CLOSED = 0 is {}
    buffer,     \* c->base.buffer, the receive buffer
    queue,      \* c->queue, head first
    err,        \* the per-thread last error [code, message]
    net,        \* bytes the server has sent and no read has returned yet
    nsent,      \* the number of frames the server has sent
    srv,        \* the server: [at, sent]; at "free" it sends any frames,
                \* else it is at a point of a script and sent holds the
                \* frames it has sent
    split,      \* a byte stream fed to the ingress parser whole and in
                \* two parts
    wlog,       \* the calls of vws_socket_write of the last client step
    dispatched, \* the frames the last client step gave to process_frame
    gap,        \* the opcodes of the frames given to process_frame since
                \* the last data frame was enqueued
    pending,    \* the data frames enqueued and not yet dequeued, oldest
                \* first, each with the gap before it: [f, gap]
    pc,         \* "idle", or the API call blocked in vws_socket_read
    ret,        \* the outcome of the last API call that returned
    wire,       \* what the socket has accepted from the client on this
                \* connection: [on, bytes, sent]; bytes the bytes accepted,
                \* sent the serialized frames of which a write accepted at
                \* least one byte; recorded while on is TRUE
    api         \* c->disconnect and the loops of socket_handshake and
                \* vws_disconnect: [hook, ev, total, i, conns, sends]

vars == << codec, sockfd, flags, buffer, queue, err, net, nsent, srv, split, wlog,
           dispatched, gap, pending, pc, ret, wire, api >>

cnxvars == << sockfd, flags, buffer, queue, err, net, nsent, srv, split, wlog,
              dispatched, gap, pending, pc, ret, wire, api >>

\* vws.success(): the last error is cleared
NoError == [code |-> "VE_NONE", message |-> ""]

Error(code, message) == [code |-> code, message |-> message]

\* no API call has returned yet
NoRet == [op |-> "none", kind |-> "null", opcode |-> 0, fin |-> 0,
          data |-> << >>, from |-> << >>, entry |-> {}, ebuf |-> FALSE,
          n |-> 0]

\* the wire is not recorded
NoWire == [on |-> FALSE, bytes |-> << >>, sent |-> << >>]

\* no disconnect hook, no handshake and no vws_disconnect under way
NoApi == [hook |-> FALSE, ev |-> << >>, total |-> 0, i |-> 0, conns |-> 0,
          sends |-> 0]

\* a server that sends any frames
SrvFree == [at |-> "free", sent |-> << >>]

\* no stream is being fed to the ingress parser
NoSplit == [phase |-> "idle", b |-> << >>, at |-> 0,
            whole |-> [dispatched |-> << >>, buffer |-> << >>,
                       queue |-> << >>, n |-> 0]]

\* the connection as vws_cnx_new leaves it, nothing on the network
ClientInit ==
    /\ sockfd = "closed"
    /\ flags = {}
    /\ buffer = << >>
    /\ queue = << >>
    /\ err = NoError
    /\ net = << >>
    /\ nsent = 0
    /\ wlog = << >>
    /\ dispatched = << >>
    /\ gap = << >>
    /\ pending = << >>
    /\ pc = "idle"
    /\ ret = NoRet
    /\ wire = NoWire
    /\ api = NoApi

CnxInit == ClientInit /\ srv = SrvFree /\ split = NoSplit

\* the codec variable while the connection runs
CodecIdle == [phase |-> "idle", f |-> vws_frame_new(<< >>, TEXT_FRAME),
              bytes |-> << >>, res |-> Incomplete]

\* ------------------------------------------------------------------------
\* The connection as a record, for the operators below
\* ------------------------------------------------------------------------

Cnx == [sockfd |-> sockfd, flags |-> flags, buffer |-> buffer,
        queue |-> queue, err |-> err, wlog |-> wlog,
        dispatched |-> dispatched, gap |-> gap, pending |-> pending,
        wire |-> wire]

\* the connection at the start of a client step: nothing dispatched or
\* written by this step yet
Fresh == [Cnx EXCEPT !.wlog = << >>, !.dispatched = << >>]

SetCnx(c) ==
    /\ sockfd' = c.sockfd
    /\ flags' = c.flags
    /\ buffer' = c.buffer
    /\ queue' = c.queue
    /\ err' = c.err
    /\ wlog' = c.wlog
    /\ dispatched' = c.dispatched
    /\ gap' = c.gap
    /\ pending' = c.pending
    /\ wire' = c.wire

\* the connection variables in the current state
SetCnxNow(c) ==
    /\ sockfd = c.sockfd
    /\ flags = c.flags
    /\ buffer = c.buffer
    /\ queue = c.queue
    /\ err = c.err
    /\ wlog = c.wlog
    /\ dispatched = c.dispatched
    /\ gap = c.gap
    /\ pending = c.pending
    /\ wire = c.wire

\* ------------------------------------------------------------------------
\* Socket layer (socket.c) and receive buffer (vrtql.c)
\* ------------------------------------------------------------------------

\* what the socket does with one write: fail, time out, accept a part of
\* the offered bytes (all but the last, at least one), accept all of them
WriteOutcomes == {"error", "timeout", "part", "all"}

\* the inputs of one write of a serialized frame: the masking key drawn by
\* vws_serialize and the behaviour of the socket
WriteInputs == [key : ReplyKeys, r : WriteOutcomes]

\* what one read may do besides delivering bytes
ReadFailures == {"timeout", "pollfail", "eof"}

vws_socket_is_connected(c) == c.sockfd = "open"

\* vws_socket_write: [c, n], n the value returned
vws_socket_write(c, data, r, by) ==
    IF ~vws_socket_is_connected(c)
    THEN [c |-> [c EXCEPT !.err = Error("VE_RT", "Not connected")], n |-> -1]
    ELSE IF Len(data) = 0
    THEN [c |-> [c EXCEPT !.err = Error("VE_WARN", "Invalid parameters")],
          n |-> -1]
    ELSE LET n == CASE r = "error" -> -1
                    [] r = "timeout" -> 0
                    [] r = "part" -> IF Len(data) > 1 THEN Len(data) - 1 ELSE 1
                    [] OTHER -> Len(data)
             e == CASE r = "error" -> Error("VE_SYS", "send() failed")
                    [] r = "timeout" -> Error("VE_TIMEOUT", "timeout")
                    [] OTHER -> NoError
             w == c.wire
         IN  [c |-> [c EXCEPT !.err = e,
                              !.wlog = Append(@, [by |-> by, data |-> data,
                                                  n |-> n]),
                              !.wire = IF w.on /\ n > 0
                                       THEN [w EXCEPT
                                               !.bytes = @ \o SubSeq(data, 1, n),
                                               !.sent = IF by = "rest" THEN @
                                                        ELSE Append(@, data)]
                                       ELSE w],
              n |-> n]

\* a failing read that clears the receive buffer, as the handshake does
SocketReadFailsClearing(c, how) ==
    [c |-> [c EXCEPT !.err = Error("VE_WARN", "timeout"), !.buffer = << >>],
     n |-> 0]

\* vws_socket_read failing: poll() times out, poll() fails, or recv()
\* returns 0; [c, n]
SocketReadFails(c, how) ==
    CASE how = "timeout" ->
           [c |-> [c EXCEPT !.err = Error("VE_WARN", "timeout")], n |-> 0]
      [] how = "pollfail" ->
           [c |-> [c EXCEPT !.err = Error("VE_RT", "poll() failed")], n |-> -1]
      [] OTHER ->
           [c |-> [c EXCEPT !.err = Error("VE_WARN",
                                          "Unexpected event in poll()")],
            n |-> 0]

\* vws_socket_read receiving data: the bytes are appended to the buffer
SocketReadData(c, data) ==
    [c |-> [c EXCEPT !.err = NoError, !.buffer = @ \o data], n |-> Len(data)]

\* a drain that shrinks the buffer without moving the bytes
DrainWithoutMove(buf, size) ==
    IF buf = << >> THEN buf
    ELSE IF size >= Len(buf) THEN << >>
    ELSE SubSeq(buf, 1, Len(buf) - size)

\* a drain that clears the buffer whatever the size
DrainAll(buf, size) == << >>

\* vrtql_buffer_drain
vrtql_buffer_drain(buf, size) ==
    IF buf = << >> THEN buf
    ELSE IF size >= Len(buf) THEN << >>
    ELSE SubSeq(buf, size + 1, Len(buf))

\* ------------------------------------------------------------------------
\* Control replies and dispatch
\* ------------------------------------------------------------------------

vws_generate_close_frame(key) ==
    vws_serialize(vws_frame_new(Htons(WS_CLOSE_NORMAL), CLOSE_FRAME), key)

\* a PONG that does not carry the payload of the PING
PongWithoutPayload(ping_data, key) ==
    vws_serialize(vws_frame_new(<< >>, PONG_FRAME), key)

vws_generate_pong_frame(ping_data, key) ==
    vws_serialize(vws_frame_new(ping_data, PONG_FRAME), key)

\* enqueue at the end the frames are dequeued from
AddLast(q, f) == q \o << f >>

\* sc_queue_add_first
sc_queue_add_first(q, f) == << f >> \o q

\* a dispatch that takes every frame for a data frame
ProcessFrameQueuesAll(c, f, w) ==
    [c EXCEPT !.dispatched = Append(@, f),
              !.queue = sc_queue_add_first(@, f),
              !.pending = Append(@, [f |-> f, gap |-> c.gap]),
              !.gap = << >>,
              !.err = NoError]

\* process_frame(c, f); w holds the key and the socket behaviour of the
\* write of a reply
process_frame(c, f, w) ==
    LET d == [c EXCEPT !.dispatched = Append(@, f),
                       !.gap = Append(@, f.opcode)]
        r == CASE f.opcode = CLOSE_FRAME ->
                    vws_socket_write(
                        [d EXCEPT !.flags = @ \cup {"CNX_CLOSING"}],
                        vws_generate_close_frame(w.key), w.r, "close_reply").c
               [] f.opcode \in {TEXT_FRAME, BINARY_FRAME, CONTINUATION_FRAME} ->
                    [d EXCEPT !.queue = sc_queue_add_first(@, f),
                              !.pending = Append(@, [f |-> f, gap |-> c.gap]),
                              !.gap = << >>]
               [] f.opcode = PING_FRAME ->
                    vws_socket_write(
                        d, vws_generate_pong_frame(f.data, w.key),
                        w.r, "pong").c
               [] OTHER -> d
    IN  [r EXCEPT !.err = NoError]

\* does process_frame write to the socket for this frame
Replies(f) == f.opcode \in {CLOSE_FRAME, PING_FRAME}

RECURSIVE CountReplies(_)
\* the number of writes vws_cnx_ingress will issue for this buffer
CountReplies(buf) ==
    LET d == vws_deserialize(buf)
    IN  IF buf = << >> \/ d.rc # "FRAME_COMPLETE" THEN 0
        ELSE (IF Replies(d.frame) THEN 1 ELSE 0)
             + CountReplies(vrtql_buffer_drain(buf, d.consumed))

RECURSIVE IngressLoop(_, _, _)
\* the loop of vws_cnx_ingress; ws are the inputs of the writes to come;
\* [c, n], n the value returned, "UB" if vws_deserialize ran off the buffer
IngressLoop(c, ws, total_consumed) ==
    IF c.buffer = << >>
    THEN [c |-> [c EXCEPT !.err = NoError], n |-> total_consumed, ub |-> FALSE]
    ELSE LET d == vws_deserialize(c.buffer)
         IN  IF d.rc = "UB" THEN [c |-> c, n |-> 0, ub |-> TRUE]
             ELSE IF d.rc = "FRAME_INCOMPLETE"
             THEN [c |-> c, n |-> 0, ub |-> FALSE]
             ELSE LET wr == Replies(d.frame)
                      p  == process_frame(c, d.frame,
                                          IF wr THEN Head(ws)
                                          ELSE [key |-> << >>, r |-> "all"])
                      q  == [p EXCEPT !.buffer =
                                vrtql_buffer_drain(@, d.consumed)]
                  IN  IngressLoop(q, IF wr THEN Tail(ws) ELSE ws,
                                  total_consumed + d.consumed)

vws_cnx_ingress(c, ws) == IngressLoop(c, ws, 0)

\* ------------------------------------------------------------------------
\* Message reassembly
\* ------------------------------------------------------------------------

\* a test that asks only whether the queue holds a frame
HasFrames(q) == q # << >>

\* a test that looks at the oldest frame only
HasCompleteAtBack(q) == q # << >> /\ q[Len(q)].fin = 1

has_complete_message(q) == \E i \in 1..Len(q) : q[i].fin = 1

\* sc_queue_del_last: the element removed and the queue left
sc_queue_del_last(q) ==
    [f |-> q[Len(q)], q |-> SubSeq(q, 1, Len(q) - 1)]

RECURSIVE PopLoopLastOpcode(_, _, _, _)
\* the loop taking the opcode of every frame, the last one winning
PopLoopLastOpcode(q, opcode, data, count) ==
    LET d == q[Len(q)]
        r == SubSeq(q, 1, Len(q) - 1)
    IN  IF d.fin = 1
        THEN [q |-> r, opcode |-> d.opcode, data |-> data \o d.data,
              count |-> count + 1]
        ELSE PopLoopLastOpcode(r, d.opcode, data \o d.data, count + 1)

RECURSIVE PopLoop(_, _, _, _)
\* the do-while loop of vws_msg_pop: opcode is 100 until the first frame.
\* The loop does not test the queue: a turn that finds it empty takes a
\* frame that does not exist, and the turn is counted and the loop cut
PopLoop(q, opcode, data, count) ==
    LET d  == sc_queue_del_last(q)
        oc == IF opcode = 100 THEN d.f.opcode ELSE opcode
    IN  IF q = << >>
        THEN [q |-> q, opcode |-> opcode, data |-> data, count |-> count + 1]
        ELSE IF d.f.fin = 1
        THEN [q |-> d.q, opcode |-> oc, data |-> data \o d.f.data,
              count |-> count + 1]
        ELSE PopLoop(d.q, oc, data \o d.f.data, count + 1)

\* vws_msg_pop: [c, kind, opcode, data, count]; kind "null" when no frame
\* of the queue has fin set; count is the number of turns of the loop, one
\* frame dequeued in each.  kind "UB" when a turn found the queue empty:
\* the frame it read is not one of the queue
vws_msg_pop(c) ==
    IF ~has_complete_message(c.queue)
    THEN [c |-> c, kind |-> "null", opcode |-> 0, data |-> << >>, count |-> 0]
    ELSE LET m == PopLoop(c.queue, 100, << >>, 0)
         IN  [c |-> [c EXCEPT !.queue = m.q,
                              !.pending = SubSeq(@, m.count + 1, Len(@))],
              kind |-> IF m.count > Len(c.queue) THEN "UB" ELSE "msg",
              opcode |-> m.opcode, data |-> m.data,
              count |-> m.count]

\* ------------------------------------------------------------------------
\* The server and the network
\* ------------------------------------------------------------------------

\* number of frames the server sends on one connection
MaxSent == 2

\* the payload the server puts into a data frame of each opcode
DataOf(opcode) == << 97 + opcode >>

\* the frames the server may send: TEXT and CONTINUATION frames of both
\* fin values, a masked BINARY frame, PING with and without payload, PONG, CLOSE with
\* status 1000, and a frame of an opcode the protocol does not define
ServerFrames ==
    { [fin |-> fin, opcode |-> oc, mask |-> 0, data |-> DataOf(oc)] :
        fin \in {0, 1}, oc \in {CONTINUATION_FRAME, TEXT_FRAME} }
    \cup
    { [fin |-> 1, opcode |-> BINARY_FRAME, mask |-> 1,
       data |-> << 200, 97 >>],
      [fin |-> 1, opcode |-> PING_FRAME, mask |-> 0, data |-> << >>],
      [fin |-> 1, opcode |-> PING_FRAME, mask |-> 0, data |-> << 200 >>],
      [fin |-> 1, opcode |-> PONG_FRAME, mask |-> 0, data |-> << 200 >>],
      [fin |-> 1, opcode |-> CLOSE_FRAME, mask |-> 0,
       data |-> Htons(WS_CLOSE_NORMAL)],
      [fin |-> 1, opcode |-> 3, mask |-> 0, data |-> << >>] }

Min(a, b) == IF a < b THEN a ELSE b

\* the server puts the frame f on the wire
Send(f) ==
    /\ sockfd = "open"
    /\ pc # "crashed"
    /\ net' = net \o vws_serialize(f, ServerKey)
    /\ nsent' = nsent + 1
    /\ UNCHANGED << codec, split, sockfd, flags, buffer, queue, err, wlog,
                    dispatched, gap, pending, pc, ret, wire, api >>

\* the server sends one more frame of its choice
ServerSend ==
    /\ srv.at = "free"
    /\ nsent < MaxSent
    /\ \E f \in ServerFrames : Send(f)
    /\ UNCHANGED srv

\* ------------------------------------------------------------------------
\* Connection API
\* ------------------------------------------------------------------------

\* vws_connect -> cnx_connect -> vws_socket_connect fails: the TCP connect
\* or the handshake hook failed and vws_socket_close ran
ConnectFails ==
    /\ pc = "idle"
    /\ sockfd = "closed"
    /\ err' = Error("VE_SYS", "Handshake failed")
    /\ ret' = [NoRet EXCEPT !.op = "connect", !.kind = "false"]
    /\ UNCHANGED << codec, split, sockfd, flags, buffer, queue, net, nsent,
                    srv, wlog, dispatched, gap, pending, pc, wire, api >>

\* vws_connect -> cnx_connect -> vws_socket_connect succeeds.  The receive
\* buffer then holds the bytes that followed the HTTP response head in the
\* last read of the handshake: the first bytes, at least one, of the
\* frame early that the server sent right behind its response.
ConnectOk(early) ==
    /\ pc = "idle"
    /\ sockfd = "closed"
    /\ LET bytes == IF early = << >> THEN << >>
                    ELSE vws_serialize(early[1], ServerKey)
       IN  \E k \in (IF early = << >> THEN {0} ELSE 1..Len(bytes)) :
             /\ buffer' = SubSeq(bytes, 1, k)
             /\ net' = SubSeq(bytes, k + 1, Len(bytes))
    /\ sockfd' = "open"
    /\ err' = NoError
    /\ nsent' = Len(early)
    /\ ret' = [NoRet EXCEPT !.op = "connect", !.kind = "true"]
    /\ UNCHANGED << codec, split, flags, queue, wlog, dispatched, gap,
                    pending, pc, wire, api >>

\* a successful vws_connect to a server that sends any frames
Connect ==
    /\ srv.at = "free"
    /\ \E early \in {<< >>} \cup { << f >> : f \in ServerFrames } :
         ConnectOk(early)
    /\ UNCHANGED srv

\* a connection check that always answers yes
AlwaysConnected(c) == [c |-> c, ok |-> TRUE]

\* vws_cnx_is_connected
vws_cnx_is_connected(c) ==
    IF vws_socket_is_connected(c)
    THEN [c |-> c, ok |-> TRUE]
    ELSE [c |-> [c EXCEPT !.err = Error("VE_SOCKET", "vws_cnx_is_connected()")],
          ok |-> FALSE]

\* the record of a call that has just been entered
Entered(op) == [NoRet EXCEPT !.op = op, !.kind = "pending",
                             !.entry = flags, !.ebuf = (buffer # << >>)]

\* the top of the loop of vws_msg_recv: return the message vws_msg_pop
\* gives, or enter socket_wait_for_frame and block in vws_socket_read
MsgRecvLoop(c, r) ==
    LET m == vws_msg_pop(c)
        k == vws_cnx_is_connected([m.c EXCEPT !.err = NoError])
    IN  IF m.kind = "msg"
        THEN /\ SetCnx(m.c)
             /\ pc' = "idle"
             /\ ret' = [r EXCEPT !.kind = "msg", !.opcode = m.opcode,
                                 !.fin = 1, !.data = m.data,
                                 !.from = SubSeq(c.pending, 1, m.count)]
        ELSE IF m.kind = "UB"
        THEN /\ SetCnx(m.c)
             /\ pc' = "crashed"
             /\ ret' = r
        ELSE IF ~k.ok
        THEN /\ SetCnx(k.c)
             /\ pc' = "idle"
             /\ ret' = [r EXCEPT !.kind = "null"]
        ELSE /\ SetCnx(k.c)
             /\ pc' = "msg_recv"
             /\ ret' = r

\* the top of the loop of vws_frame_recv
FrameRecvLoop(c, r) ==
    LET d == sc_queue_del_last(c.queue)
        k == vws_cnx_is_connected([c EXCEPT !.err = NoError])
    IN  IF Len(c.queue) > 0
        THEN /\ SetCnx([c EXCEPT !.queue = d.q, !.pending = Tail(@)])
             /\ pc' = "idle"
             /\ ret' = [r EXCEPT !.kind = "frame", !.opcode = d.f.opcode,
                                 !.fin = d.f.fin, !.data = d.f.data,
                                 !.from = SubSeq(c.pending, 1, 1)]
        ELSE IF ~k.ok
        THEN /\ SetCnx(k.c)
             /\ pc' = "idle"
             /\ ret' = [r EXCEPT !.kind = "null"]
        ELSE /\ SetCnx(k.c)
             /\ pc' = "frame_recv"
             /\ ret' = r

\* a call of vws_msg_recv, up to its return or its first socket read
MsgRecv ==
    /\ pc = "idle"
    /\ LET k == vws_cnx_is_connected([Fresh EXCEPT !.err = NoError])
       IN  IF ~k.ok
           THEN /\ SetCnx(k.c)
                /\ pc' = "idle"
                /\ ret' = [Entered("msg_recv") EXCEPT !.kind = "null"]
           ELSE MsgRecvLoop(k.c, Entered("msg_recv"))
    /\ UNCHANGED << codec, split, net, nsent, srv, api >>

\* a call of vws_frame_recv, up to its return or its first socket read
FrameRecv ==
    /\ pc = "idle"
    /\ LET k == vws_cnx_is_connected([Fresh EXCEPT !.err = NoError])
       IN  IF ~k.ok
           THEN /\ SetCnx(k.c)
                /\ pc' = "idle"
                /\ ret' = [Entered("frame_recv") EXCEPT !.kind = "null"]
           ELSE FrameRecvLoop(k.c, Entered("frame_recv"))
    /\ UNCHANGED << codec, split, net, nsent, srv, api >>

\* a call of vws_msg_pop by the application
MsgPop ==
    /\ pc = "idle"
    /\ LET m == vws_msg_pop(Fresh)
       IN  /\ SetCnx(m.c)
           /\ ret' = [Entered("msg_pop") EXCEPT
                        !.kind = m.kind, !.opcode = m.opcode,
                        !.fin = IF m.kind = "msg" THEN 1 ELSE 0,
                        !.data = m.data,
                        !.from = SubSeq(pending, 1, m.count)]
    /\ UNCHANGED << codec, split, net, nsent, srv, pc, api >>

\* the blocked vws_socket_read of socket_wait_for_frame returns no data:
\* socket_wait_for_frame returns n <= 0 and the receive call returns NULL
ReadFails ==
    /\ pc \in {"msg_recv", "frame_recv"}
    /\ \E how \in ReadFailures :
         SetCnx(SocketReadFails(Fresh, how).c)
    /\ pc' = "idle"
    /\ ret' = [ret EXCEPT !.kind = "null"]
    /\ UNCHANGED << codec, split, net, nsent, srv, api >>

\* the blocked vws_socket_read returns up to 1024 bytes: they are appended
\* to the buffer and vws_cnx_ingress runs; when it returns 0 the loop of
\* socket_wait_for_frame reads again, else the receive call goes on
ReadData ==
    /\ pc \in {"msg_recv", "frame_recv"}
    /\ \E k \in 1..Min(Len(net), ReadChunk) :
         LET rd == SocketReadData(Fresh, SubSeq(net, 1, k))
         IN  /\ net' = SubSeq(net, k + 1, Len(net))
             /\ \E ws \in [1..CountReplies(rd.c.buffer) -> WriteInputs] :
                  LET ing == vws_cnx_ingress(rd.c, ws)
                  IN  IF ing.ub
                      THEN SetCnx(ing.c) /\ pc' = "crashed" /\ ret' = ret
                      ELSE IF ing.n > 0
                      THEN IF pc = "msg_recv"
                           THEN MsgRecvLoop(ing.c, ret)
                           ELSE FrameRecvLoop(ing.c, ret)
                      ELSE SetCnx(ing.c) /\ pc' = pc /\ ret' = ret
    /\ UNCHANGED << codec, split, nsent, srv, api >>

Init == codec = CodecIdle /\ CnxInit

Next ==
    \/ ConnectFails
    \/ Connect
    \/ ServerSend
    \/ MsgRecv
    \/ FrameRecv
    \/ MsgPop
    \/ ReadFails
    \/ ReadData

Spec == Init /\ [][Next]_vars

\* ------------------------------------------------------------------------
\* A server that sends one fragmented message: a TEXT frame with fin = 0,
\* then PING frames, then a CONTINUATION frame with fin = 1.  The client
\* uses the message API only.
\* ------------------------------------------------------------------------

\* number of PING frames between the two fragments
MaxPings == 2

FirstPayloads == { << 97 >>, << 97, 98 >> }

LastPayloads == { << >>, << 99 >> }

PingPayloads == { << >>, << 200 >> }

Fragment(fin, oc, data) == [fin |-> fin, opcode |-> oc, mask |-> 0, data |-> data]

\* the scripted server sends f and moves to the point at
Script(f, at) ==
    /\ Send(f)
    /\ srv' = [at |-> at, sent |-> Append(srv.sent, f)]

FragInit ==
    /\ codec = CodecIdle
    /\ ClientInit
    /\ split = NoSplit
    /\ srv = [at |-> "first", sent |-> << >>]

\* vws_connect succeeds; the first fragment may have come with the response
FragConnect ==
    /\ srv.at = "first"
    /\ \/ ConnectOk(<< >>) /\ UNCHANGED srv
       \/ \E p \in FirstPayloads :
            LET f == Fragment(0, TEXT_FRAME, p)
            IN  /\ ConnectOk(<< f >>)
                /\ srv' = [at |-> "middle", sent |-> << f >>]

FragFirst ==
    /\ srv.at = "first"
    /\ \E p \in FirstPayloads : Script(Fragment(0, TEXT_FRAME, p), "middle")

FragPing ==
    /\ srv.at = "middle"
    /\ Len(srv.sent) <= MaxPings
    /\ \E p \in PingPayloads : Script(Fragment(1, PING_FRAME, p), "middle")

FragLast ==
    /\ srv.at = "middle"
    /\ \E p \in LastPayloads :
         Script(Fragment(1, CONTINUATION_FRAME, p), "done")

FragNext ==
    \/ ConnectFails
    \/ FragConnect
    \/ FragFirst
    \/ FragPing
    \/ FragLast
    \/ MsgRecv
    \/ MsgPop
    \/ ReadFails
    \/ ReadData

SpecFrag == FragInit /\ [][FragNext]_vars

\* ------------------------------------------------------------------------
\* A server that sends one data frame; the client uses vws_frame_recv
\* ------------------------------------------------------------------------

\* the data frames among the frames of the server
OneFrames == { f \in ServerFrames : f.opcode \in {CONTINUATION_FRAME,
                                                  TEXT_FRAME, BINARY_FRAME} }

OneInit ==
    /\ codec = CodecIdle
    /\ ClientInit
    /\ split = NoSplit
    /\ srv = [at |-> "one", sent |-> << >>]

\* vws_connect succeeds, no frame has come with the response
OneConnect ==
    /\ srv.at = "one"
    /\ ConnectOk(<< >>)
    /\ UNCHANGED srv

OneSend ==
    /\ srv.at = "one"
    /\ \E f \in OneFrames : Script(f, "done")

OneNext ==
    \/ ConnectFails
    \/ OneConnect
    \/ OneSend
    \/ FrameRecv
    \/ ReadFails
    \/ ReadData

SpecOne == OneInit /\ [][OneNext]_vars

\* ------------------------------------------------------------------------
\* A byte stream fed to the ingress parser whole, and in two parts
\* ------------------------------------------------------------------------

\* length of the byte streams
MaxStream == 5

\* the bytes of the streams: as first byte of a frame CONTINUATION and
\* TEXT with fin = 0, TEXT, CLOSE and PING with fin = 1; as second byte
\* the lengths 0 and 1 unmasked, 1, 8 and 9 masked
StreamBytes == {0, 1, 129, 136, 137}

Streams == UNION { [1..n -> StreamBytes] : n \in 0..MaxStream }

\* a connected connection with empty buffer and queue
Connected ==
    [sockfd |-> "open", flags |-> {}, buffer |-> << >>, queue |-> << >>,
     err |-> NoError, wlog |-> << >>, dispatched |-> << >>, gap |-> << >>,
     pending |-> << >>, wire |-> NoWire]

\* vrtql_buffer_append of data to the receive buffer, then vws_cnx_ingress
Feed(c, data, ws) ==
    vws_cnx_ingress([c EXCEPT !.buffer = @ \o data], ws)

SplitInit ==
    /\ codec = CodecIdle
    /\ srv = SrvFree
    /\ pc = "idle"
    /\ ret = NoRet
    /\ net = << >>
    /\ nsent = 0
    /\ api = NoApi
    /\ SetCnxNow(Connected)
    /\ \E b \in Streams :
         \E at \in 0..Len(b) :
           split = [phase |-> "start", b |-> b, at |-> at,
                    whole |-> [dispatched |-> << >>, buffer |-> << >>,
                               queue |-> << >>, n |-> 0]]

\* the stream is fed whole to a connection of its own
FeedWhole ==
    /\ split.phase = "start"
    /\ \E ws \in [1..CountReplies(split.b) -> WriteInputs] :
         LET r == Feed(Connected, split.b, ws)
         IN  /\ ~r.ub
             /\ split' = [split EXCEPT
                            !.phase = "whole",
                            !.whole = [dispatched |-> r.c.dispatched,
                                       buffer |-> r.c.buffer,
                                       queue |-> r.c.queue,
                                       n |-> r.n]]
    /\ UNCHANGED << codec, sockfd, flags, buffer, queue, err, net, nsent, srv,
                    wlog, dispatched, gap, pending, pc, ret, wire, api >>

\* the first part is appended to the receive buffer and parsed
FeedFirst ==
    /\ split.phase = "whole"
    /\ LET data == SubSeq(split.b, 1, split.at)
       IN  \E ws \in [1..CountReplies(buffer \o data) -> WriteInputs] :
             LET r == Feed(Cnx, data, ws)
             IN  ~r.ub /\ SetCnx(r.c)
    /\ split' = [split EXCEPT !.phase = "first"]
    /\ UNCHANGED << codec, net, nsent, srv, pc, ret, api >>

\* the second part is appended to the receive buffer and parsed
FeedSecond ==
    /\ split.phase = "first"
    /\ LET data == SubSeq(split.b, split.at + 1, Len(split.b))
       IN  \E ws \in [1..CountReplies(buffer \o data) -> WriteInputs] :
             LET r == Feed(Cnx, data, ws)
             IN  ~r.ub /\ SetCnx(r.c)
    /\ split' = [split EXCEPT !.phase = "done"]
    /\ UNCHANGED << codec, net, nsent, srv, pc, ret, api >>

SplitNext == FeedWhole \/ FeedFirst \/ FeedSecond

SpecSplit == SplitInit /\ [][SplitNext]_vars

\* ------------------------------------------------------------------------
\* The opening handshake (socket_handshake), the send API and
\* vws_disconnect.  The HTTP response head is kept as the byte 72, then
\* for a sec-websocket-accept header the byte 58 and the value, then the
\* byte 10 that ends the headers.
\* ------------------------------------------------------------------------

\* calls of vws_connect on the connection object
MaxConns == 2

\* calls of the send API
MaxSends == 2

\* frames the server sends on one connection
MaxApiSent == 1

\* bytes of the handshake that are recorded on the wire
MaxWire == 6

\* the request socket_handshake formats into req
Request == << 71, 69, 84 >>

\* c->key, the value of generate_websocket_key
ClientKey == << 107, 49 >>

\* websocket_guid
WebSocketGuid == << 50, 53, 56 >>

RECURSIVE SumBytes(_)
SumBytes(bs) == IF bs = << >> THEN 0 ELSE Head(bs) + SumBytes(Tail(bs))

\* stands for the Base64 text of the SHA-1 hash of the input
Digest(input) ==
    << 65 + (SumBytes(input) % 26), 97 + (Len(input) % 26), 61 >>

vws_accept_key(key) == Digest(key \o WebSocketGuid)

RECURSIVE StrcmpPrefix(_, _)
\* a comparison that stops at the end of the first string
StrcmpPrefix(a, b) ==
    IF a = << >> THEN 0
    ELSE IF b = << >> THEN 1
    ELSE IF Head(a) # Head(b) THEN (IF Head(a) < Head(b) THEN -1 ELSE 1)
    ELSE StrcmpPrefix(Tail(a), Tail(b))

RECURSIVE strcmp(_, _)
\* strcmp of two C strings, kept here without the terminating NUL
strcmp(a, b) ==
    IF a = << >> /\ b = << >> THEN 0
    ELSE IF a = << >> THEN -1
    ELSE IF b = << >> THEN 1
    ELSE IF Head(a) # Head(b) THEN (IF Head(a) < Head(b) THEN -1 ELSE 1)
    ELSE strcmp(Tail(a), Tail(b))

verify_handshake(key, response) == strcmp(vws_accept_key(key), response) = 0

\* the head of the HTTP response resp = [has, accept]
Head101(resp) ==
    << 72 >> \o (IF resp.has THEN << 58 >> \o resp.accept ELSE << >>)
             \o << 10 >>

\* the answers of the server: the accept value is right, differs in one
\* byte, is cut short, is too long, is empty, or the header is missing
Responses ==
    LET right == vws_accept_key(ClientKey)
    IN  { [has |-> TRUE, accept |-> a] :
            a \in { right, [right EXCEPT ![Len(right)] = 62],
                    SubSeq(right, 1, Len(right) - 1), right \o << 61 >>,
                    << >> } }
        \cup { [has |-> FALSE, accept |-> << >>] }

\* position of the first byte 10 of buf, 0 if there is none
EndOfHead(buf) ==
    IF \E i \in 1..Len(buf) : buf[i] = 10
    THEN CHOOSE i \in 1..Len(buf) :
           buf[i] = 10 /\ \A j \in 1..(i - 1) : buf[j] # 10
    ELSE 0

\* vws_http_msg_parse on the whole receive buffer, and
\* vws_map_get(headers, "sec-websocket-accept"): [complete, n, has, accept]
vws_http_msg_parse(buf) ==
    LET n == EndOfHead(buf)
    IN  IF buf = << >> \/ buf[1] # 72 \/ n = 0
        THEN [complete |-> FALSE, n |-> 0, has |-> FALSE, accept |-> << >>]
        ELSE [complete |-> TRUE, n |-> n,
              has |-> (n > 2 /\ buf[2] = 58),
              accept |-> IF n > 2 /\ buf[2] = 58 THEN SubSeq(buf, 3, n - 1)
                         ELSE << >>]

\* a close that leaves the descriptor as it is
CloseLeavesOpen(c) == c

\* vws_socket_close
vws_socket_close(c) == [c EXCEPT !.sockfd = "closed"]

\* vws_socket_disconnect
vws_socket_disconnect(c) ==
    IF ~vws_socket_is_connected(c) THEN c
    ELSE [vws_socket_close(c) EXCEPT !.err = NoError]

\* an entry of api.ev
Event(e, data, n) == [e |-> e, data |-> data, n |-> n]

\* the frames the application sends
SendFrames == { vws_frame_new(<< 97 >>, TEXT_FRAME),
                vws_frame_new(<< >>, BINARY_FRAME) }

\* the frames the server sends after its response
ApiFrames ==
    { [fin |-> 1, opcode |-> TEXT_FRAME, mask |-> 0, data |-> << 98 >>],
      [fin |-> 1, opcode |-> PING_FRAME, mask |-> 0, data |-> << 200 >>],
      [fin |-> 1, opcode |-> CLOSE_FRAME, mask |-> 0,
       data |-> Htons(WS_CLOSE_NORMAL)] }

\* the wire of a new connection
NewWire == [on |-> TRUE, bytes |-> << >>, sent |-> << >>]

ApiInit ==
    /\ codec = CodecIdle
    /\ split = NoSplit
    /\ srv = [at |-> "api", sent |-> << >>]
    /\ sockfd = "closed"
    /\ flags = {}
    /\ buffer = << >>
    /\ queue = << >>
    /\ err = NoError
    /\ net = << >>
    /\ nsent = 0
    /\ wlog = << >>
    /\ dispatched = << >>
    /\ gap = << >>
    /\ pending = << >>
    /\ pc = "idle"
    /\ ret = NoRet
    /\ wire = NewWire
    /\ \E h \in BOOLEAN : api = [NoApi EXCEPT !.hook = h]

\* vws_connect -> cnx_connect -> vws_socket_connect: connect_to_host fails
TcpFails ==
    /\ pc = "idle"
    /\ sockfd = "closed"
    /\ api.conns < MaxConns
    /\ SetCnx(vws_socket_close(
                [Fresh EXCEPT !.err = Error("VE_SYS", "Connection failed")]))
    /\ ret' = [Entered("connect") EXCEPT !.kind = "false"]
    /\ api' = [api EXCEPT !.conns = @ + 1,
                           !.ev = << Event("tcp_fail", << >>, 0) >>]
    /\ UNCHANGED << codec, split, net, nsent, srv, pc >>

\* vws_connect -> cnx_connect -> vws_socket_connect up to the call of the
\* handshake hook: the TCP connection stands and socket_handshake starts
TcpConnect ==
    /\ pc = "idle"
    /\ sockfd = "closed"
    /\ api.conns < MaxConns
    /\ SetCnx([Fresh EXCEPT !.sockfd = "open", !.wire = NewWire])
    /\ pc' = "hs_write"
    /\ ret' = Entered("connect")
    /\ net' = << >>
    /\ nsent' = 0
    /\ srv' = [at |-> "api", sent |-> << >>]
    /\ api' = [api EXCEPT !.conns = @ + 1, !.total = 0, !.ev = << >>]
    /\ UNCHANGED << codec, split >>

\* socket_handshake returned false: vws_socket_connect sets its error,
\* closes the socket and returns false
HandshakeFailed(c, why) ==
    /\ SetCnx(vws_socket_close(
                [c EXCEPT !.err = Error("VE_SYS", "Handshake failed")]))
    /\ pc' = "idle"
    /\ ret' = [ret EXCEPT !.kind = "false"]
    /\ api' = [api EXCEPT !.ev = Append(@, Event(why, << >>, 0))]

\* the record of the wire during the handshake: its first MaxWire bytes
HsWire(c) ==
    [c EXCEPT !.wire = [@ EXCEPT
                          !.bytes = SubSeq(@, 1, Min(Len(@), MaxWire)),
                          !.sent = << >>]]

\* one turn of the write loop of socket_handshake
HsWrite ==
    /\ pc = "hs_write"
    /\ \E r \in WriteOutcomes :
         LET w     == vws_socket_write(Fresh, Request, r, "handshake")
             total == Min(api.total + w.n, Len(Request) + 1)
         IN  IF w.n > 0
             THEN /\ SetCnx(HsWire(w.c))
                  /\ ret' = ret
                  /\ api' = [api EXCEPT !.total = total]
                  /\ pc' = IF total = Len(Request) THEN "hs_read" ELSE pc
             ELSE IF w.n = 0 /\ w.c.err.code # "VE_TIMEOUT"
             THEN SetCnx(w.c) /\ UNCHANGED << ret, api, pc >>
             ELSE HandshakeFailed(w.c, IF w.n = 0 THEN "write_timeout"
                                       ELSE "write_fail")
    /\ UNCHANGED << codec, split, net, nsent, srv >>

\* the server answers the request, and may send a frame right behind
ServerRespond ==
    /\ pc = "hs_read"
    /\ srv.at = "api"
    /\ \E resp \in Responses :
         \E early \in {<< >>} \cup { << f >> : f \in ApiFrames } :
           /\ net' = Head101(resp)
                       \o (IF early = << >> THEN << >>
                           ELSE vws_serialize(early[1], ServerKey))
           /\ nsent' = Len(early)
           /\ srv' = [at |-> "open", sent |-> << resp >> \o early]
    /\ UNCHANGED << codec, split, sockfd, flags, buffer, queue, err, wlog,
                    dispatched, gap, pending, pc, ret, wire, api >>

\* the end of socket_handshake once the headers are complete, and the end
\* of vws_socket_connect
HandshakeVerify(c, h) ==
    IF ~h.has
    THEN HandshakeFailed(
             [c EXCEPT !.err = Error("VE_SYS",
                                     "connect failed: no accept key returned")],
             "no_accept")
    ELSE IF ~verify_handshake(ClientKey, h.accept)
    THEN HandshakeFailed(
             [c EXCEPT !.err = Error("VE_RT", "Handshake verification failed")],
             "mismatch")
    ELSE /\ SetCnx([c EXCEPT !.err = NoError])
         /\ pc' = "idle"
         /\ ret' = [ret EXCEPT !.kind = "true"]
         /\ api' = [api EXCEPT !.ev = Append(@, Event("verified", << >>, 0))]

\* a failed read that ends the handshake with the buffer as it is
HsReadFailsKeeping ==
    /\ pc = "hs_read"
    /\ \E how \in ReadFailures :
         LET rd == SocketReadFails(Fresh, how)
         IN  IF rd.n < 0 \/ rd.c.err.code = "VE_TIMEOUT"
             THEN HandshakeFailed(rd.c, "read_fail")
             ELSE SetCnx(rd.c) /\ UNCHANGED << pc, ret, api >>
    /\ UNCHANGED << codec, split, net, nsent, srv >>

\* one turn of the read loop of socket_handshake: the read fails
HsReadFails ==
    /\ pc = "hs_read"
    /\ \E how \in ReadFailures :
         LET rd == SocketReadFails(Fresh, how)
         IN  IF rd.n < 0 \/ rd.c.err.code = "VE_TIMEOUT"
             THEN HandshakeFailed([rd.c EXCEPT !.buffer = << >>], "read_fail")
             ELSE SetCnx(rd.c) /\ UNCHANGED << pc, ret, api >>
    /\ UNCHANGED << codec, split, net, nsent, srv >>

\* one turn of the read loop of socket_handshake: bytes arrive
HsReadData ==
    /\ pc = "hs_read"
    /\ \E k \in 1..Min(Len(net), ReadChunk) :
         LET rd == SocketReadData(Fresh, SubSeq(net, 1, k))
             h  == vws_http_msg_parse(rd.c.buffer)
         IN  /\ net' = SubSeq(net, k + 1, Len(net))
             /\ IF ~h.complete
                THEN SetCnx(rd.c) /\ UNCHANGED << pc, ret, api >>
                ELSE HandshakeVerify(
                         [rd.c EXCEPT !.buffer = vrtql_buffer_drain(@, h.n)],
                         h)
    /\ UNCHANGED << codec, split, nsent, srv >>

HsInit ==
    /\ codec = CodecIdle
    /\ ClientInit
    /\ split = NoSplit
    /\ srv = [at |-> "api", sent |-> << >>]

HsNext ==
    \/ TcpFails
    \/ TcpConnect
    \/ HsWrite
    \/ ServerRespond
    \/ HsReadFails
    \/ HsReadData

SpecHs == HsInit /\ [][HsNext]_vars

\* vws_connect succeeds on the one connection the server accepts
ApiConnect ==
    /\ srv.at = "api"
    /\ ConnectOk(<< >>)
    /\ srv' = [at |-> "open", sent |-> << >>]

\* the server sends a frame on the open connection
ApiServerSend ==
    /\ srv.at = "open"
    /\ nsent < MaxApiSent
    /\ \E f \in ApiFrames : Send(f)
    /\ UNCHANGED srv

\* vws_frame_send of a frame made by vws_frame_new
FrameSend ==
    /\ pc = "idle"
    /\ api.sends < MaxSends
    /\ \E f \in SendFrames : \E in \in WriteInputs :
         LET k      == vws_cnx_is_connected(Fresh)
             binary == vws_serialize(f, in.key)
             w      == vws_socket_write(k.c, binary, in.r, "send")
             k2     == vws_cnx_is_connected(w.c)
         IN  IF ~k.ok
             THEN /\ SetCnx(k.c)
                  /\ ret' = [Entered("send") EXCEPT !.kind = "n", !.n = -1]
             ELSE IF ~k2.ok
             THEN /\ SetCnx(k2.c)
                  /\ ret' = [Entered("send") EXCEPT !.kind = "n", !.n = -1,
                                                    !.opcode = f.opcode,
                                                    !.data = f.data]
             ELSE /\ SetCnx([w.c EXCEPT !.err = NoError])
                  /\ ret' = [Entered("send") EXCEPT !.kind = "n", !.n = w.n,
                                                    !.opcode = f.opcode,
                                                    !.data = f.data]
    /\ api' = [api EXCEPT !.sends = @ + 1]
    /\ UNCHANGED << codec, split, net, nsent, srv, pc >>

\* vws_disconnect that closes the socket before it writes
DisconnectBeginClosing(c, hook) ==
    [c  |-> vws_socket_close([c EXCEPT !.flags = {}]),
     ev |-> (IF hook THEN << Event("hook", << >>, 0) >> ELSE << >>)
              \o << Event("flags", << >>, 0) >>]

\* vws_disconnect on a connected connection, up to its write loop: the
\* hook is called if there is one, then the flags become CNX_CLOSED
DisconnectBegin(c, hook) ==
    [c  |-> [c EXCEPT !.flags = {}],
     ev |-> (IF hook THEN << Event("hook", << >>, 0) >> ELSE << >>)
              \o << Event("flags", << >>, 0) >>]

\* a call of vws_disconnect, up to its first write
Disconnect ==
    /\ pc = "idle"
    /\ LET k == vws_cnx_is_connected(Fresh)
           b == DisconnectBegin(k.c, api.hook)
       IN  IF ~k.ok
           THEN /\ SetCnx(k.c)
                /\ pc' = "idle"
                /\ ret' = [Entered("disconnect") EXCEPT !.kind = "noop"]
                /\ api' = [api EXCEPT !.ev = << >>]
           ELSE /\ SetCnx(b.c)
                /\ pc' = "disconnect"
                /\ ret' = Entered("disconnect")
                /\ api' = [api EXCEPT !.ev = b.ev, !.i = 0]
    /\ UNCHANGED << codec, split, net, nsent, srv >>

\* one turn of the write loop of vws_disconnect; when the loop ends,
\* vws_socket_disconnect and the return
DisconnectWrite ==
    /\ pc = "disconnect"
    /\ \E in \in WriteInputs :
         LET frame == vws_generate_close_frame(in.key)
             data  == SubSeq(frame, api.i + 1, Len(frame))
             w     == vws_socket_write(Fresh, data, in.r,
                                       IF api.i = 0 THEN "disconnect"
                                       ELSE "rest")
         IN  IF w.n < 0 \/ api.i + w.n >= Len(frame)
             THEN /\ SetCnx(vws_socket_disconnect(w.c))
                  /\ pc' = "idle"
                  /\ ret' = [ret EXCEPT !.kind = "done"]
                  /\ api' = [api EXCEPT
                               !.ev = Append(@, Event("close", << >>, 0)),
                               !.i = 0]
             ELSE /\ SetCnx(w.c)
                  /\ pc' = pc
                  /\ ret' = ret
                  /\ api' = [api EXCEPT !.i = @ + w.n]
    /\ UNCHANGED << codec, split, net, nsent, srv >>

ApiNext ==
    \/ ApiConnect
    \/ ApiServerSend
    \/ FrameSend
    \/ FrameRecv
    \/ MsgRecv
    \/ ReadFails
    \/ ReadData
    \/ Disconnect
    \/ DisconnectWrite

SpecApi == ApiInit /\ [][ApiNext]_vars

\* ------------------------------------------------------------------------
\* Properties of the connection
\* ------------------------------------------------------------------------

RECURSIVE Concat(_)
\* the concatenation of a sequence of byte sequences
Concat(ss) == IF ss = << >> THEN << >> ELSE Head(ss) \o Concat(Tail(ss))

Reverse(q) == [i \in 1..Len(q) |-> q[Len(q) + 1 - i]]

\* the frames of pending entries
FramesOf(es) == [i \in 1..Len(es) |-> es[i].f]

IsPing(f) == f.opcode = PING_FRAME

IsClose(f) == f.opcode = CLOSE_FRAME

\* the frame a write offered to the socket
Offered(w) == vws_deserialize(w.data)

\* the write w offered exactly one masked final frame of this opcode
OffersFrame(w, opcode) ==
    /\ Offered(w).rc = "FRAME_COMPLETE"
    /\ Offered(w).consumed = Len(w.data)
    /\ Offered(w).frame.opcode = opcode
    /\ Offered(w).frame.fin = 1
    /\ Offered(w).frame.mask = 1

IsPongWrite(w) == w.data # << >> /\ w.data[1] % 16 = PONG_FRAME

IsCloseWrite(w) == w.data # << >> /\ w.data[1] % 16 = CLOSE_FRAME

\* the PING frames the last step dispatched were answered one by one, in
\* order, each by one write of a PONG frame with the payload of the PING
PingsAnswered ==
    LET pings == SelectSeq(dispatched, IsPing)
        pongs == SelectSeq(wlog, IsPongWrite)
    IN  /\ Len(pongs) = Len(pings)
        /\ \A i \in 1..Len(pongs) :
             /\ OffersFrame(pongs[i], PONG_FRAME)
             /\ Offered(pongs[i]).frame.data = pings[i].data

NoPingQueued == \A i \in 1..Len(queue) : queue[i].opcode # PING_FRAME

\* C1: when the server sends TEXT with fin = 0, PING frames and then
\* CONTINUATION with fin = 1, a message returned by vws_msg_recv or
\* vws_msg_pop is TEXT with the payloads of the two fragments concatenated,
\* and it is the only one: both fragments have been consumed and nothing is
\* left to read; every PING is answered by a PONG and none is queued.
C1_Reassembly ==
    /\ ret.kind = "msg" =>
         /\ srv.at = "done"
         /\ ret.opcode = TEXT_FRAME
         /\ ret.data = srv.sent[1].data \o srv.sent[Len(srv.sent)].data
         /\ queue = << >> /\ buffer = << >> /\ net = << >>
    /\ PingsAnswered
    /\ NoPingQueued

\* the message came out with as many PING frames as the server may send
\* between the fragments, all dispatched between them
C1_Witness ==
    /\ srv.at = "done"
    /\ Len(srv.sent) = MaxPings + 2
    /\ ret.op = "msg_recv"
    /\ ret.kind = "msg"
    /\ ret.from[2].gap = [i \in 1..MaxPings |-> PING_FRAME]

\* C2: the queue holds the data frames in the order of their arrival, and a
\* message returned by vws_msg_pop or vws_msg_recv is made of the oldest
\* frames queued, up to the first with fin = 1, their payloads in the order
\* of arrival.
C2_Fifo ==
    /\ queue = Reverse(FramesOf(pending))
    /\ ret.kind = "msg" =>
         /\ ret.from # << >>
         /\ ret.from[Len(ret.from)].f.fin = 1
         /\ \A i \in 1..(Len(ret.from) - 1) : ret.from[i].f.fin = 0
         /\ ret.data = Concat([i \in 1..Len(ret.from) |-> ret.from[i].f.data])

\* the older of two queued messages was returned, the younger is still
\* queued
C2_Witness ==
    /\ ret.kind = "msg"
    /\ ret.opcode = TEXT_FRAME
    /\ Len(ret.from) = 1
    /\ Len(queue) = 1
    /\ queue[1].opcode = BINARY_FRAME
    /\ queue[1].fin = 1

\* C3: for every PING dispatched the responder issues exactly one write, of
\* a masked PONG frame with fin = 1 whose payload is that of the PING; the
\* PING is not enqueued.
C3_PingPong ==
    /\ PingsAnswered
    /\ \A i \in 1..Len(queue) : ~IsPing(queue[i])
    /\ \A i \in 1..Len(pending) : ~IsPing(pending[i].f)

\* one step dispatched a PING without payload and a PING with payload
C3_Witness ==
    /\ Len(dispatched) = 2
    /\ IsPing(dispatched[1]) /\ dispatched[1].data = << >>
    /\ IsPing(dispatched[2]) /\ dispatched[2].data = << 200 >>
    /\ Len(wlog) = 2

\* C4: for every CLOSE dispatched the CLOSING flag is set and one write of a
\* CLOSE frame with payload 0x03 0xE8 is issued; the CLOSE is not enqueued.
C4_CloseReply ==
    LET closes  == SelectSeq(dispatched, IsClose)
        replies == SelectSeq(wlog, IsCloseWrite)
    IN  /\ Len(replies) = Len(closes)
        /\ \A i \in 1..Len(replies) :
             /\ OffersFrame(replies[i], CLOSE_FRAME)
             /\ Offered(replies[i]).frame.data = << 3, 232 >>
        /\ closes # << >> => "CNX_CLOSING" \in flags
        /\ \A i \in 1..Len(queue) : ~IsClose(queue[i])

\* a CLOSE was dispatched and its reply written
C4_Witness ==
    /\ \E i \in 1..Len(dispatched) : IsClose(dispatched[i])
    /\ Len(wlog) = 1
    /\ "CNX_CLOSING" \in flags

\* C8: a call of vws_msg_recv entered after a CLOSE has been processed
\* (CLOSING set) returns NULL.
C8_RecvNullAfterClose ==
    (ret.op = "msg_recv" /\ ret.kind # "pending"
       /\ "CNX_CLOSING" \in ret.entry)
    => ret.kind = "null"

C10_TimeoutKind ==
    (pc = "idle" /\ ret.op \in {"frame_recv", "msg_recv"}
       /\ ret.kind = "null" /\ err.message = "timeout")
    => err.code = "VE_TIMEOUT"

\* C6: feeding a stream to the ingress parser in two parts dispatches the
\* same frames in the same order and leaves the same receive buffer (and
\* queue) as feeding it whole.
C6_SplitStream ==
    split.phase = "done" =>
        /\ dispatched = split.whole.dispatched
        /\ buffer = split.whole.buffer
        /\ queue = split.whole.queue

\* the stream was cut inside its first frame, holds two frames and a rest
C6_Witness ==
    /\ split.phase = "done"
    /\ split.at = 1
    /\ Len(dispatched) = 2
    /\ buffer # << >>

\* ------------------------------------------------------------------------
\* The codec taken alone: serialize a frame, then deserialize the bytes
\* ------------------------------------------------------------------------

CodecInit ==
    /\ codec \in [phase : {"frame"}, f : CodecFrames,
                  bytes : {<< >>}, res : {Incomplete}]
    /\ CnxInit

\* buffer = vws_serialize(f)
CodecSerialize ==
    /\ codec.phase = "frame"
    /\ \E key \in Keys :
         codec' = [codec EXCEPT !.phase = "bytes",
                                !.bytes = vws_serialize(codec.f, key)]
    /\ UNCHANGED cnxvars

\* rc = vws_deserialize(buffer->data, buffer->size, f2, &consumed)
CodecDeserialize ==
    /\ codec.phase = "bytes"
    /\ codec' = [codec EXCEPT !.phase = "parsed",
                              !.res = vws_deserialize(codec.bytes)]
    /\ UNCHANGED cnxvars

CodecNext == CodecSerialize \/ CodecDeserialize

SpecCodec == CodecInit /\ [][CodecNext]_vars

\* C5: a masked frame survives vws_serialize followed by vws_deserialize:
\* the result is FRAME_COMPLETE, fin, opcode and payload are those of the
\* frame and consumed is the length of the serialized bytes.
C5_RoundTrip ==
    (codec.phase = "parsed" /\ codec.f.mask = 1) =>
        /\ codec.res.rc = "FRAME_COMPLETE"
        /\ codec.res.frame.fin = codec.f.fin
        /\ codec.res.frame.opcode = codec.f.opcode
        /\ codec.res.frame.data = codec.f.data
        /\ codec.res.consumed = Len(codec.bytes)

\* a masked frame with a payload the key changes has been serialized with
\* a non-zero key and parsed back
C5_Witness ==
    /\ codec.phase = "parsed"
    /\ codec.f.mask = 1
    /\ codec.f.fin = 0
    /\ codec.f.opcode = 15
    /\ Len(codec.f.data) = MaxPayloadLen
    /\ SubSeq(codec.bytes, 7, Len(codec.bytes)) # codec.f.data

\* the length announced by a serialized frame, read as the RFC lays it out
WireLen(bytes) ==
    LET l == bytes[2] % 128
    IN  IF l <= 125 THEN l
        ELSE IF l = 126 THEN bytes[3] * 256 + bytes[4]
        ELSE IF bytes[3] = 0 /\ bytes[4] = 0 /\ bytes[5] = 0 /\ bytes[6] = 0
             THEN bytes[7] * 16777216 + bytes[8] * 65536
                  + bytes[9] * 256 + bytes[10]
             ELSE -1

\* C7: vws_serialize writes the length as itself (<= 125), as 126 and two
\* big-endian bytes (<= 65535) or as 127 and eight big-endian bytes, and the
\* output holds 2 + (0, 2 or 8) + (4 if mask) + len bytes.
C7_LengthEncoding ==
    codec.phase = "bytes" =>
        LET len == Len(codec.f.data)
            ext == IF len <= 125 THEN 0 ELSE IF len <= 65535 THEN 2 ELSE 8
            l   == codec.bytes[2] % 128
        IN  /\ l = (IF ext = 0 THEN len ELSE IF ext = 2 THEN 126 ELSE 127)
            /\ WireLen(codec.bytes) = len
            /\ (codec.bytes[2] \div 128) = codec.f.mask
            /\ Len(codec.bytes)
                 = 2 + ext + (IF codec.f.mask = 1 THEN 4 ELSE 0) + len

\* a masked frame of 65536 payload bytes has been serialized
C7_Witness ==
    /\ codec.phase = "bytes"
    /\ Len(codec.f.data) = 65536
    /\ codec.f.mask = 1

\* ------------------------------------------------------------------------
\* Properties of vws_disconnect, vws_connect and the send API
\* ------------------------------------------------------------------------

\* the CLOSE frame vws_disconnect writes
DisconnectFrame == vws_generate_close_frame(CHOOSE k \in ReplyKeys : TRUE)

\* the events of vws_disconnect before its write loop
DisconnectPrefix ==
    (IF api.hook THEN << Event("hook", << >>, 0) >> ELSE << >>)
      \o << Event("flags", << >>, 0) >>

\* the last Len(t) bytes of b are t
EndsWith(b, t) ==
    /\ Len(b) >= Len(t)
    /\ SubSeq(b, Len(b) - Len(t) + 1, Len(b)) = t

\* C11: vws_disconnect on a connected connection calls the hook if there is
\* one, then sets the flags to CNX_CLOSED, then writes the CLOSE frame with
\* status 1000, every write offering the bytes not yet accepted, and only
\* then closes the socket: the socket is open at every write, and when no
\* write failed the whole CLOSE frame has gone to the wire.
C11_DisconnectOrder ==
    /\ [](pc = "disconnect" =>
            /\ sockfd = "open"
            /\ flags = {}
            /\ api.ev = DisconnectPrefix)
    /\ [][(pc = "idle" /\ pc' = "disconnect") =>
            (sockfd = "open" /\ wlog' = << >> /\ wire' = wire)]_vars
    /\ [][(pc = "disconnect" /\ net' = net) =>
            /\ Len(wlog') = 1
            /\ wlog'[1].data
                 = SubSeq(DisconnectFrame, api.i + 1, Len(DisconnectFrame))
            /\ pc' = "idle" =>
                 /\ sockfd' = "closed"
                 /\ flags' = {}
                 /\ api'.ev = Append(DisconnectPrefix, Event("close", << >>, 0))
                 /\ \/ wlog'[1].n < 0
                    \/ api.i + wlog'[1].n = Len(DisconnectFrame)
            /\ pc' # "idle" =>
                 /\ sockfd' = "open"
                 /\ api'.ev = api.ev
                 /\ wlog'[1].n >= 0]_vars
    /\ []((ret.op = "disconnect" /\ ret.kind = "done" /\ wlog[1].n >= 0) =>
            /\ EndsWith(wire.bytes, DisconnectFrame)
            /\ OffersFrame([data |-> DisconnectFrame], CLOSE_FRAME)
            /\ Offered([data |-> DisconnectFrame]).frame.data = << 3, 232 >>)

\* vws_disconnect with a hook has returned on a connection in CLOSING; the
\* socket took the CLOSE frame in more than one write
C11_Witness ==
    /\ ret.op = "disconnect"
    /\ ret.kind = "done"
    /\ api.hook
    /\ "CNX_CLOSING" \in ret.entry
    /\ flags = {}
    /\ sockfd = "closed"
    /\ Len(wlog) = 1
    /\ Len(wlog[1].data) < Len(DisconnectFrame)
    /\ wlog[1].n = Len(wlog[1].data)

\* C12: vws_disconnect on a connection that is not connected calls no
\* hook, writes nothing and leaves flags, queue, receive buffer and socket
\* as they are.
C12_DisconnectIdempotent ==
    [][(pc = "idle" /\ sockfd = "closed" /\ ret'.op = "disconnect") =>
         /\ pc' = "idle"
         /\ sockfd' = "closed"
         /\ flags' = flags
         /\ queue' = queue
         /\ buffer' = buffer
         /\ wire' = wire
         /\ wlog' = << >>
         /\ api'.ev = << >>]_vars

\* vws_disconnect was called with a hook on the connection that an earlier
\* vws_disconnect had closed with bytes left in the receive buffer
C12_Witness ==
    /\ ret.op = "disconnect"
    /\ ret.kind = "noop"
    /\ srv.at = "open"
    /\ api.hook
    /\ buffer # << >>
    /\ sockfd = "closed"

\* C13: after vws_connect has returned true the flags contain
\* CNX_CONNECTED.
C13_ConnectedFlag ==
    (ret.op = "connect" /\ ret.kind = "true") => "CNX_CONNECTED" \in flags

\* the last event of api.ev
LastEvent == IF api.ev = << >> THEN "none" ELSE api.ev[Len(api.ev)].e

\* the accept value the server sent is the one the key asks for
AcceptIsRight ==
    /\ srv.sent # << >>
    /\ srv.sent[1].has
    /\ srv.sent[1].accept = vws_accept_key(ClientKey)

\* C14: when the handshake fails at a sub-step - a write of the request
\* fails or times out, a read of the response fails, the accept header is
\* missing or its value is not the expected one - vws_connect returns
\* false, the socket is closed and the flags are CNX_CLOSED.
C14_HandshakeFailureCloses ==
    /\ []((ret.op = "connect" /\ ret.kind = "false") =>
            (pc = "idle" /\ sockfd = "closed" /\ flags = {}))
    /\ [][(pc = "hs_write" /\ wlog' # << >> /\ wlog'[1].n <= 0) =>
            (ret'.kind = "false" /\ sockfd' = "closed")]_vars
    /\ [][(pc = "hs_read" /\ err'.message = "poll() failed") =>
            (ret'.kind = "false" /\ sockfd' = "closed")]_vars
    /\ [][(pc = "hs_read" /\ pc' = "idle" /\ ~AcceptIsRight) =>
            (ret'.kind = "false" /\ sockfd' = "closed")]_vars

\* the second vws_connect failed on an accept value that differs, after
\* the first had failed
C14_Witness ==
    /\ ret.op = "connect"
    /\ ret.kind = "false"
    /\ LastEvent = "mismatch"
    /\ api.conns = 2
    /\ sockfd = "closed"

\* C15: once the response head is complete, the handshake succeeds exactly
\* when the head has a sec-websocket-accept header whose value equals the
\* accept key computed from the client key.
C15_AcceptVerified ==
    (pc = "idle" /\ ret.op = "connect"
       /\ LastEvent \in {"verified", "no_accept", "mismatch"})
    => /\ (ret.kind = "true") <=> AcceptIsRight
       /\ (sockfd = "open") <=> AcceptIsRight

\* the handshake succeeded on the right accept value, bytes of a frame
\* having come with the response
C15_Witness ==
    /\ ret.op = "connect"
    /\ ret.kind = "true"
    /\ LastEvent = "verified"
    /\ AcceptIsRight
    /\ buffer # << >>

\* C16: when the accept value of the server differs from the expected one,
\* vws_connect returns false and the last error is of kind RT with the
\* message "Handshake verification failed".
C16_MismatchError ==
    (ret.op = "connect" /\ ret.kind = "false" /\ LastEvent = "mismatch")
    => /\ err.code = "VE_RT"
       /\ err.message = "Handshake verification failed"

\* C17: vws_frame_send, vws_msg_recv and vws_frame_recv called on a
\* connection that is not connected return at once with -1 or NULL, write
\* nothing, and leave a last error of kind RT.
C17_ClosedCalls ==
    (pc = "idle" /\ sockfd = "closed"
       /\ ret.op \in {"send", "msg_recv", "frame_recv"})
    => /\ ret.op = "send" => ret.n = -1
       /\ ret.op # "send" => ret.kind = "null"
       /\ wlog = << >>
       /\ err.code = "VE_RT"

\* C18: vws_frame_send returns a value >= 0 only when the write took the
\* whole frame; when the write failed, timed out or took a part only, it
\* returns -1 and the last error is set.
C18_SendFailureReported ==
    ret.op = "send" =>
        LET whole == wlog # << >> /\ wlog[1].n = Len(wlog[1].data)
        IN  /\ ret.n >= 0 => whole
            /\ ~whole => (ret.n = -1 /\ err # NoError)

\* C19: between calls the bytes the socket has accepted on the open
\* connection are the serialized frames of the sends and control replies,
\* whole and in the order of the calls.
C19_OutboundOrder ==
    (pc = "idle" /\ sockfd = "open") => wire.bytes = Concat(wire.sent)

\* C20: vws_frame_recv returns the oldest frame of the queue and removes
\* that frame only; it returns NULL on a connected connection only when no
\* data frame is queued.
C20_RecvFrameOldest ==
    /\ (ret.op = "frame_recv" /\ ret.kind = "frame") =>
         /\ Len(ret.from) = 1
         /\ ret.data = ret.from[1].f.data
         /\ ret.opcode = ret.from[1].f.opcode
         /\ queue = Reverse(FramesOf(pending))
    /\ (pc = "idle" /\ ret.op = "frame_recv" /\ ret.kind = "null"
          /\ sockfd = "open")
       => queue = << >>

\* ------------------------------------------------------------------------
\* Properties of reassembly, of the frames written and of dispatch
\* ------------------------------------------------------------------------

\* C21: a message returned by vws_msg_pop or vws_msg_recv has the opcode
\* TEXT or BINARY, whatever frames came in and whatever calls of
\* vws_frame_recv took frames before; it never has the opcode CONTINUATION.
C21_MessageOpcode ==
    ret.kind = "msg" => ret.opcode \in {TEXT_FRAME, BINARY_FRAME}

\* C22: the frames put together into a message are the frames of one
\* message: each of them after the first is a CONTINUATION frame.
C22_OneLogicalMessage ==
    ret.kind = "msg" =>
        \A i \in 2..Len(ret.from) : ret.from[i].f.opcode = CONTINUATION_FRAME

\* bytes is a final masked frame of this opcode and payload (at most 125
\* bytes) as RFC 6455 lays it out: the mask bit, the 4 bytes of the key
\* right before the payload, each payload byte XORed with its key byte
MaskedOnWire(bytes, opcode, payload) ==
    /\ Len(bytes) = 2 + 4 + Len(payload)
    /\ bytes[1] = 128 + opcode
    /\ bytes[2] = 128 + Len(payload)
    /\ \A i \in 1..Len(payload) :
         bytes[6 + i] = BitXor(payload[i], bytes[2 + ((i - 1) % 4) + 1])

ByPong(w) == w.by = "pong"

\* C23: every frame the client offers to the socket is masked: the frame
\* of vws_frame_send with the opcode and payload of the application, the
\* PONG replies with the payloads of the PING frames, the CLOSE reply and
\* the CLOSE of vws_disconnect with the payload 0x03 0xE8.
C23_ClientFramesMasked ==
    LET pings == SelectSeq(dispatched, IsPing)
        pongs == SelectSeq(wlog, ByPong)
    IN  /\ Len(pongs) = Len(pings)
        /\ \A i \in 1..Len(pongs) :
             MaskedOnWire(pongs[i].data, PONG_FRAME, pings[i].data)
        /\ \A i \in 1..Len(wlog) :
             /\ wlog[i].by = "send" =>
                  MaskedOnWire(wlog[i].data, ret.opcode, ret.data)
             /\ wlog[i].by \in {"close_reply", "disconnect"} =>
                  MaskedOnWire(wlog[i].data, CLOSE_FRAME, << 3, 232 >>)
             /\ wlog[i].by \in {"send", "pong", "close_reply", "disconnect",
                                "rest"}

\* a frame with a payload the key changes has been sent, and the socket
\* took it whole
C23_Witness ==
    /\ ret.op = "send"
    /\ ret.data = << 97 >>
    /\ Len(wlog) = 1
    /\ wlog[1].n = Len(wlog[1].data)
    /\ wlog[1].data[7] # 97

\* ------------------------------------------------------------------------
\* A server that sends one PING frame, with a payload up to and beyond the
\* 125 bytes of a control frame; the client uses vws_frame_recv
\* ------------------------------------------------------------------------

\* payload lengths of the PING frames of this server
PingLens == {0, 125, 126}

PingFrames ==
    { Fragment(1, PING_FRAME, [i \in 1..n |-> 97]) : n \in PingLens }

PingInit ==
    /\ codec = CodecIdle
    /\ ClientInit
    /\ split = NoSplit
    /\ srv = [at |-> "ping", sent |-> << >>]

\* vws_connect succeeds, no frame has come with the response
PingConnect ==
    /\ srv.at = "ping"
    /\ ConnectOk(<< >>)
    /\ UNCHANGED srv

PingSend ==
    /\ srv.at = "ping"
    /\ \E f \in PingFrames : Script(f, "done")

PingNext ==
    \/ PingConnect
    \/ PingSend
    \/ FrameRecv
    \/ ReadFails
    \/ ReadData

SpecPing == PingInit /\ [][PingNext]_vars

\* the write w offers a frame from its first byte on
OffersWhole(w) == w.by \notin {"rest", "handshake"} /\ Len(w.data) >= 2

\* C24: every control frame the client offers to the socket has fin = 1
\* and announces a payload of at most 125 bytes, whatever PING came in.
C24_ControlFramesSmall ==
    \A i \in 1..Len(wlog) :
        (OffersWhole(wlog[i]) /\ wlog[i].data[1] % 16 >= 8) =>
            /\ wlog[i].data[1] \div 128 = 1
            /\ wlog[i].data[2] % 128 <= 125

\* process_frame has no case for the opcode of f, or the case of PONG
Ignored(f) ==
    f.opcode \notin {CONTINUATION_FRAME, TEXT_FRAME, BINARY_FRAME,
                     CLOSE_FRAME, PING_FRAME}

\* C25: a step that reads from the socket issues one write for each PING
\* and CLOSE frame it dispatches and none for the other frames; when it
\* dispatches only PONG frames and frames of an opcode that is not defined,
\* it writes nothing, leaves the flags as they were and adds nothing to
\* the queue: the queue is the one before the step, less the frames the
\* receive call returns when the step ends it.
C25_PongIgnored ==
    [][ (Len(net') < Len(net) /\ dispatched' # << >>) =>
          /\ Len(wlog') = Len(SelectSeq(dispatched', Replies))
          /\ (\A i \in 1..Len(dispatched') : Ignored(dispatched'[i])) =>
                LET taken == IF pc' = "idle" /\ ret'.kind \in {"frame", "msg"}
                             THEN FramesOf(ret'.from) ELSE << >>
                IN  /\ wlog' = << >>
                    /\ taken \o Reverse(queue') = Reverse(queue)
                    /\ flags' = flags ]_vars

\* a read brought a PONG frame while a frame was queued and the receive
\* call went on waiting
C25_Witness ==
    /\ dispatched # << >>
    /\ dispatched[1].opcode = PONG_FRAME
    /\ wlog = << >>
    /\ queue # << >>
    /\ pc = "msg_recv"

\* C26: the value vws_cnx_ingress returns is the number of bytes it
\* drained from the receive buffer, also when it stops at an incomplete
\* frame after it has dispatched complete ones.
C26_IngressReturn ==
    split.phase \in {"whole", "first", "done"} =>
        split.whole.n = Len(split.b) - Len(split.whole.buffer)

\* ------------------------------------------------------------------------
\* vws_deserialize taken alone, on slices that end before, at and behind
\* the end of the frame they start, and on headers with 8 length bytes of
\* any value
\* ------------------------------------------------------------------------

\* the frames the slices are cut from
SliceFrames ==
    [fin : {1}, opcode : {TEXT_FRAME, PING_FRAME}, mask : {0, 1},
     data : SmallPayloads]
    \cup
    [fin : {0}, opcode : {BINARY_FRAME}, mask : {0, 1},
     data : { [i \in 1..n |-> 97] : n \in {125, 126} }]

\* where a slice of a frame of len bytes ends: within and right behind the
\* longest header, one byte before the end of the frame, at its end, one
\* byte behind it
CutPoints(len) == { k \in 0..(len + 1) : k <= 15 \/ k >= len - 1 }

\* 8 length bytes: 2^64 - 10, 2^64 - 14, 2^64 - 1, 2^63, 2^24, and 5
LongLens ==
    { << 255, 255, 255, 255, 255, 255, 255, 246 >>,
      << 255, 255, 255, 255, 255, 255, 255, 242 >>,
      << 255, 255, 255, 255, 255, 255, 255, 255 >>,
      << 128, 0, 0, 0, 0, 0, 0, 0 >>,
      << 0, 0, 0, 0, 1, 0, 0, 0 >>,
      << 0, 0, 0, 0, 0, 0, 0, 5 >> }

\* the slices handed to vws_deserialize
Slices ==
    UNION { { SubSeq(vws_serialize(f, ServerKey) \o << 129 >>, 1, k) :
                k \in CutPoints(Len(vws_serialize(f, ServerKey))) } :
            f \in SliceFrames }
    \cup
    { << 130, m >> \o l \o [i \in 1..k |-> 97] :
        m \in {127, 255}, l \in LongLens, k \in {0, 4, 5, 9} }

SliceInit ==
    /\ codec \in [phase : {"slice"}, f : {vws_frame_new(<< >>, TEXT_FRAME)},
                  bytes : Slices, res : {Incomplete}]
    /\ CnxInit

\* rc = vws_deserialize(data, size, f, &consumed) on the slice
SliceDeserialize ==
    /\ codec.phase = "slice"
    /\ codec' = [codec EXCEPT !.phase = "sliced",
                              !.res = vws_deserialize(codec.bytes)]
    /\ UNCHANGED cnxvars

SliceNext == SliceDeserialize

SpecSlice == SliceInit /\ [][SliceNext]_vars

\* the number of extended length bytes a header announces
ExtLen(b) == IF b[2] % 128 = 126 THEN 2 ELSE IF b[2] % 128 = 127 THEN 8 ELSE 0

\* the header of b is whole and announces 2^24 payload bytes or more
LongFrame(b) == ExtLen(b) = 8 /\ SubSeq(b, 3, 7) # << 0, 0, 0, 0, 0 >>

\* the payload length a whole header announces, when below 2^24
ShortLen(b) ==
    IF ExtLen(b) = 0 THEN b[2] % 128
    ELSE IF ExtLen(b) = 2 THEN b[3] * 256 + b[4]
    ELSE b[8] * 65536 + b[9] * 256 + b[10]

\* the bytes before the payload
HeadLen(b) == 2 + ExtLen(b) + (IF b[2] >= 128 THEN 4 ELSE 0)

\* the slice b holds the whole frame it starts
HoldsFrame(b) ==
    /\ Len(b) >= 2
    /\ Len(b) >= 2 + ExtLen(b)
    /\ ~LongFrame(b)
    /\ Len(b) >= HeadLen(b) + ShortLen(b)

\* header, key and payload length of b add up to 2^64 or more
WrapsAround(b) ==
    /\ Len(b) >= 10
    /\ ExtLen(b) = 8
    /\ SubSeq(b, 3, 7) = << 255, 255, 255, 255, 255 >>
    /\ ShortLen(b) + HeadLen(b) >= 16777216

C28_NoWraparound ==
    codec.phase = "sliced" =>
        /\ codec.res.rc # "UB"
        /\ codec.res.rc = "FRAME_COMPLETE" => HoldsFrame(codec.bytes)

\* ------------------------------------------------------------------------
\* vws_msg_pop taken alone, on any queue of data frames
\* ------------------------------------------------------------------------

\* number of frames in the queue
MaxQueue == 3

\* the frames of the queues
QueueFrames ==
    { Fragment(fin, oc, DataOf(oc + 2 * fin)) :
        fin \in {0, 1}, oc \in {CONTINUATION_FRAME, TEXT_FRAME} }

\* the queues, oldest frame first
Arrivals == UNION { [1..n -> QueueFrames] : n \in 0..MaxQueue }

\* a connected connection whose queue holds the frames of a, all
\* dispatched by earlier calls
PopInit ==
    /\ codec = CodecIdle
    /\ srv = SrvFree
    /\ split = NoSplit
    /\ pc = "idle"
    /\ ret = NoRet
    /\ net = << >>
    /\ nsent = 0
    /\ api = NoApi
    /\ \E a \in Arrivals :
         SetCnxNow([Connected EXCEPT
                      !.queue = Reverse(a),
                      !.pending = [i \in 1..Len(a) |->
                                     [f |-> a[i], gap |-> << >>]]])

PopNext == MsgPop

SpecPop == PopInit /\ [][PopNext]_vars

\* the place of the oldest frame with fin = 1 among the frames a, oldest
\* first; 0 if there is none
OldestFin(a) ==
    IF \E i \in 1..Len(a) : a[i].fin = 1
    THEN CHOOSE i \in 1..Len(a) :
           a[i].fin = 1 /\ \A j \in 1..(i - 1) : a[j].fin = 0
    ELSE 0

\* C29: vws_msg_pop returns NULL exactly when no frame of the queue has
\* fin = 1, and then the queue is left as it was; a message is made of the
\* frames from the oldest up to the oldest with fin = 1, and these frames
\* and no others leave the queue.
C29_PopMessage ==
    [][ (pc = "idle" /\ net' = net /\ ret'.op = "msg_pop") =>
          LET old == Reverse(queue)
              k   == OldestFin(old)
          IN  /\ ret'.kind = (IF k = 0 THEN "null" ELSE "msg")
              /\ k = 0 => queue' = queue
              /\ Reverse(queue') = SubSeq(old, k + 1, Len(old))
              /\ k > 0 =>
                   ret'.data = Concat([i \in 1..k |-> old[i].data]) ]_vars

\* a message of two frames came out of a queue of three frames
C29_Witness ==
    /\ ret.op = "msg_pop"
    /\ ret.kind = "msg"
    /\ Len(ret.from) = 2
    /\ Len(queue) = MaxQueue - 2

\* b is the beginning of a
IsPrefix(b, a) == Len(b) <= Len(a) /\ b = SubSeq(a, 1, Len(b))

\* C30: while socket_handshake sends, the bytes the socket has accepted
\* are the beginning of the request and not yet all of it; when it goes on
\* to read the response they are the request, each byte once.
C30_HandshakeRequestSent ==
    /\ pc = "hs_write" => (IsPrefix(wire.bytes, Request) /\ wire.bytes # Request)
    /\ pc = "hs_read" => wire.bytes = Request

\* ------------------------------------------------------------------------
\* Properties of the handshake response, of the end of connections and of
\* the receive calls
\* ------------------------------------------------------------------------

\* the bytes the server has sent behind the head of its response
AfterHead ==
    Concat([i \in 1..(Len(srv.sent) - 1) |->
              vws_serialize(srv.sent[i + 1], ServerKey)])

\* C31: when vws_connect returns true, the receive buffer holds the bytes
\* the server sent behind the head of its response, as far as they have
\* been read: no byte of the head is left and no byte behind it is lost,
\* in whatever pieces the reads delivered the response.
C31_HeadDrained ==
    (ret.op = "connect" /\ ret.kind = "true") =>
        /\ srv.sent # << >>
        /\ buffer \o net = AfterHead

\* the read that completed the head also brought the first bytes of a
\* frame, and the rest of the frame is still to be read
C31_Witness ==
    /\ ret.op = "connect"
    /\ ret.kind = "true"
    /\ buffer # << >>
    /\ net # << >>

\* all the bytes of the response of the server
Response == Head101(srv.sent[1]) \o AfterHead

\* C32: when vws_connect returns false because a read of the response
\* failed, the receive buffer is empty, whatever part of the response had
\* been read before.
C32_BufferClearedOnReadFailure ==
    (ret.op = "connect" /\ ret.kind = "false" /\ LastEvent = "read_fail")
    => buffer = << >>

\* a part of the response had been read when the read failed
C32_Witness ==
    /\ ret.op = "connect"
    /\ ret.kind = "false"
    /\ LastEvent = "read_fail"
    /\ srv.sent # << >>
    /\ net # << >>
    /\ Len(net) < Len(Response)
    /\ buffer = << >>

\* C33: a write of the CLOSE frame of vws_disconnect that fails or times
\* out (returns -1 or 0) ends the write loop: vws_disconnect does not write
\* again, closes the socket and returns.
C33_DisconnectNoRetry ==
    [][ (pc = "disconnect" /\ net' = net /\ wlog' # << >>
           /\ wlog'[1].n <= 0)
        => (pc' = "idle" /\ sockfd' = "closed") ]_vars

\* C34: when vws_msg_recv returns NULL on a connected connection, no frame
\* of the queue has fin = 1.
C34_RecvMessageNull ==
    (pc = "idle" /\ ret.op = "msg_recv" /\ ret.kind = "null"
       /\ sockfd = "open")
    => \A i \in 1..Len(queue) : queue[i].fin = 0

\* C35: when vws_msg_recv or vws_frame_recv returns on a connected
\* connection, the receive buffer does not begin with a complete frame:
\* a frame that was whole in the buffer when the call began has been
\* dispatched by the call, also when no read brought more bytes.
C35_BufferedFrameDispatched ==
    (pc = "idle" /\ ret.op \in {"msg_recv", "frame_recv"}
       /\ sockfd = "open" /\ buffer # << >>)
    => vws_deserialize(buffer).rc # "FRAME_COMPLETE"

\* C36: a read of the handshake response that times out ends the read
\* loop: socket_handshake fails and vws_connect returns false.
C36_HandshakeReadTimeout ==
    [][ (pc = "hs_read" /\ net' = net /\ err'.message = "timeout")
        => (pc' = "idle" /\ ret'.kind = "false") ]_vars

\* the bytes begin a CLOSE frame
IsCloseBytes(b) == b # << >> /\ b[1] % 16 = CLOSE_FRAME

\* C37: on one connection the client puts at most one CLOSE frame on the
\* wire: after the reply to the CLOSE of the server, vws_disconnect sends
\* no second one.
C37_OneClose ==
    Len(SelectSeq(wire.sent, IsCloseBytes)) <= 1

\* ------------------------------------------------------------------------
\* One connection object used for several connections: vws_connect,
\* frames from the server, vws_msg_recv, vws_disconnect, and then
\* vws_connect or vws_reconnect on the same object
\* ------------------------------------------------------------------------

\* the frames the server sends on a connection: the first or the last
\* frame of a message
ReFrames ==
    { [fin |-> b, opcode |-> TEXT_FRAME, mask |-> 0, data |-> << 97 >>] :
        b \in {0, 1} }

\* cnx_connect -> vws_socket_connect succeeds on a new TCP connection and
\* the caller's record is r.  socket_handshake reads the response behind
\* what the receive buffer holds and the parser looks for the head at the
\* front of the buffer, so the handshake succeeds from an empty buffer;
\* nothing on the way touches c->queue or c->flags
CnxConnectOk(c, r) ==
    /\ c.buffer = << >>
    /\ SetCnx([c EXCEPT !.sockfd = "open", !.err = NoError,
                        !.wire = NewWire])
    /\ net' = << >>
    /\ nsent' = 0
    /\ srv' = [at |-> "open", sent |-> << >>]
    /\ ret' = r
    /\ api' = [api EXCEPT !.conns = @ + 1]
    /\ UNCHANGED << codec, split, pc >>

\* cnx_connect -> vws_socket_connect fails: connect_to_host or the
\* handshake failed and vws_socket_close ran
CnxConnectFails(c, r) ==
    /\ SetCnx(vws_socket_close(
                [c EXCEPT !.err = Error("VE_SYS", "Connection failed")]))
    /\ ret' = r
    /\ api' = [api EXCEPT !.conns = @ + 1]
    /\ UNCHANGED << codec, split, pc, net, nsent, srv >>

\* a successful vws_connect on the connection object; it sets c->url
ReConnect ==
    /\ pc = "idle"
    /\ sockfd = "closed"
    /\ api.conns < MaxConns
    /\ CnxConnectOk(Fresh, [Entered("connect") EXCEPT !.kind = "true"])

\* vws_reconnect: true at once when connected; else cnx_connect is called
\* if c->url is set, and the call returns false whatever cnx_connect did
Reconnect ==
    /\ pc = "idle"
    /\ sockfd = "open" \/ api.conns < MaxConns
    /\ LET k == vws_cnx_is_connected(Fresh)
           r == Entered("reconnect")
       IN  IF k.ok
           THEN /\ SetCnx(k.c)
                /\ ret' = [r EXCEPT !.kind = "true"]
                /\ UNCHANGED << codec, split, pc, net, nsent, srv, api >>
           ELSE IF api.conns = 0
           THEN /\ SetCnx(k.c)
                /\ ret' = [r EXCEPT !.kind = "false"]
                /\ UNCHANGED << codec, split, pc, net, nsent, srv, api >>
           ELSE \/ CnxConnectOk(k.c, [r EXCEPT !.kind = "false"])
                \/ CnxConnectFails(k.c, [r EXCEPT !.kind = "false"])

\* the server sends a frame on the open connection
ReServerSend ==
    /\ srv.at = "open"
    /\ nsent < MaxApiSent
    /\ \E f \in ReFrames : Send(f)
    /\ UNCHANGED srv

ReNext ==
    \/ ReConnect
    \/ Reconnect
    \/ ReServerSend
    \/ MsgRecv
    \/ ReadFails
    \/ ReadData
    \/ Disconnect
    \/ DisconnectWrite

SpecRe == ApiInit /\ [][ReNext]_vars

\* C38: when vws_disconnect has returned and the next call, a connect on
\* the same connection object, succeeds, the frame queue and the receive
\* buffer are empty: nothing received on the previous connection is left
\* to be delivered on the new one.
C38_NoCrossing ==
    [][ (/\ ret.op = "disconnect"
         /\ ret.kind = "done"
         /\ ret'.op \in {"connect", "reconnect"}
         /\ sockfd' = "open")
        => (queue' = << >> /\ buffer' = << >>) ]_vars

\* C40: vws_reconnect returns true exactly when the connection is
\* connected at its return.
C40_ReconnectReturn ==
    ret.op = "reconnect" => (ret.kind = "true" <=> sockfd = "open")

\* C39: whenever has_complete_message is true of the queue, the loop of
\* vws_msg_pop stops at a frame with fin = 1 that the queue holds, having
\* taken no more frames than the queue has; and no call of vws_msg_pop has
\* taken a frame from an empty queue.
C39_NeverDequeuesEmpty ==
    /\ ret.kind # "UB"
    /\ has_complete_message(queue) =>
         LET m == PopLoop(queue, 100, << >>, 0)
         IN  /\ m.count <= Len(queue)
             /\ queue[Len(queue) - m.count + 1].fin = 1
             /\ Len(m.q) = Len(queue) - m.count

\* a call dequeued two frames and the frame left makes has_complete_message
\* true again
C39_Witness ==
    /\ ret.op = "msg_pop"
    /\ ret.kind = "msg"
    /\ Len(ret.from) = 2
    /\ queue # << >>
    /\ has_complete_message(queue)

====
